---- MODULE Spec2Model ----
(***************************************************************************)
(* A model of sheetshow.py: one run of main().  The command line and the   *)
(* file system under the search target are the inputs, SearchResults is    *)
(* the aggregator, stdout and the written workbook are the outputs.        *)
(*                                                                         *)
(* Text (search terms, lines, cell values) is a sequence of one-character  *)
(* strings, so that lower(), strip(), "in" and the regular-expression      *)
(* search of pandas' str.contains are computed.  Names that the program    *)
(* only copies or prefixes (file names, sheet names, column names) are     *)
(* TLA+ strings.  A Python optional value is a sequence of length 0 (None) *)
(* or 1.  A Python dict is a function (the match record) or, where its     *)
(* insertion order matters, a sequence of <<key, value>> pairs.            *)
(*                                                                         *)
(* Fonts, fills and column widths of the written workbook are not          *)
(* modelled: they leave the tables' cells untouched.                       *)
(***************************************************************************)
EXTENDS Integers, Sequences, FiniteSets, TLC

VARIABLES
    args,             \* argparse result: search_terms, export, output
    fs,               \* the search target as found on disk
    results,          \* SearchResults.results
    search_terms,     \* SearchResults.search_terms
    search_location,  \* SearchResults.search_location
    files_to_search,  \* search_files: the resolved file list
    file_idx,         \* search_files: position of the for loop
    matching_files,   \* search_files: local counter
    initial_results_count,  \* search_files: local of the loop body
    sheet_idx,        \* search_excel_file: position of the loop over sheets
    stdout,           \* everything printed, in order
    save_calls,       \* the arguments of every save_to_excel call
    returned,         \* the return value of the last save_to_excel call
    written,          \* the workbook on disk, if one was written
    pc                \* position in main()

inputs == <<args, fs>>

aggregator == <<results, search_terms, search_location>>

loop == <<files_to_search, file_idx, matching_files, initial_results_count,
          sheet_idx>>

saving == <<save_calls, returned, written>>

vars == <<inputs, aggregator, loop, stdout, saving, pc>>

----------------------------------------------------------------------------
(* Bounds of the model *)

MaxTerms == 2
MaxLines == 2
MaxSheets == 2
MaxFiles == 2

(* Program constants *)

MaxNameLen == 50
DefaultMaxDisplay == 20
HeaderOffset == 2

None == <<>>
Some(v) == <<v>>

----------------------------------------------------------------------------
(* Python's str operations on text *)

UpperToLower == [c \in {"A", "B"} |-> IF c = "A" THEN "a" ELSE "b"]

LowerChar(c) == IF c \in DOMAIN UpperToLower THEN UpperToLower[c] ELSE c

Lower(s) == [i \in 1..Len(s) |-> LowerChar(s[i])]

IsSpace(c) == c \in {" ", "\n", "\t"}

IsAlnum(c) == c \in {"a", "b", "n", "A", "B", "7", "8"}

RECURSIVE LStrip(_)
LStrip(s) == IF s # <<>> /\ IsSpace(Head(s)) THEN LStrip(Tail(s)) ELSE s

RECURSIVE RStrip(_)
RStrip(s) ==
    IF s # <<>> /\ IsSpace(s[Len(s)]) THEN RStrip(SubSeq(s, 1, Len(s) - 1)) ELSE s

Strip(s) == RStrip(LStrip(s))

\* sub in s
Contains(sub, s) ==
    \E i \in 0..(Len(s) - Len(sub)) : SubSeq(s, i + 1, i + Len(sub)) = sub

\* re.search(pat, s, re.IGNORECASE) is not None, for patterns over letters,
\* digits, blanks and the metacharacter "."
PatCharMatches(p, c) ==
    IF p = "." THEN c # "\n" ELSE LowerChar(p) = LowerChar(c)

RegexSearch(pat, s) ==
    \E i \in 0..(Len(s) - Len(pat)) :
        \A j \in 1..Len(pat) : PatCharMatches(pat[j], s[i + j])

\* re.compile(pat) succeeds: an unbalanced "(" is the one malformed pattern
\* the alphabet of the model can spell
RegexValid(pat) == \A j \in 1..Len(pat) : pat[j] # "("

\* Series.str.contains(pat, case=False, na=False) on one value, regex=True
\* being the default
StrContains(pat, s) == RegexSearch(pat, s)

RECURSIVE Join(_, _)
Join(sep, parts) ==
    IF parts = <<>> THEN <<>>
    ELSE IF Len(parts) = 1 THEN parts[1]
    ELSE parts[1] \o sep \o Join(sep, Tail(parts))

RECURSIVE Filter(_, _)
Filter(s, keep) ==
    IF s = <<>> THEN <<>>
    ELSE (IF Head(s) \in keep THEN <<Head(s)>> ELSE <<>>) \o Filter(Tail(s), keep)

Take(s, n) == SubSeq(s, 1, IF Len(s) < n THEN Len(s) ELSE n)

Range(s) == {s[i] : i \in 1..Len(s)}

----------------------------------------------------------------------------
(* SearchResults.add_result *)

TruthyText(opt) == opt # None /\ opt[1] # <<>>

TruthyName(opt) == opt # None /\ opt[1] # ""

\* add_result with the column_name test nested under the matched_term test
add_result_nested(res, file_path, line_number, line_content, matched_term, sheet_name, column_name, full_row_data) ==
    LET base == [file_path |-> file_path,
                 line_number |-> line_number,
                 line_content |-> Strip(line_content)]
        r1 == IF TruthyText(matched_term)
              THEN base @@ ("matched_term" :> matched_term[1]) ELSE base
        r2 == IF TruthyName(sheet_name)
              THEN r1 @@ ("sheet_name" :> sheet_name[1]) ELSE r1
        r3 == IF TruthyText(matched_term) /\ TruthyName(column_name)
              THEN r2 @@ ("column_name" :> column_name[1]) ELSE r2
        r4 == IF TruthyText(full_row_data)
              THEN r3 @@ ("full_row_data" :> full_row_data[1]) ELSE r3
    IN  Append(res, r4)

\* add_result with results.insert(0, result) for results.append(result)
add_result_front(res, file_path, line_number, line_content, matched_term, sheet_name, column_name, full_row_data) ==
    LET base == [file_path |-> file_path,
                 line_number |-> line_number,
                 line_content |-> Strip(line_content)]
        r1 == IF TruthyText(matched_term)
              THEN base @@ ("matched_term" :> matched_term[1]) ELSE base
        r2 == IF TruthyName(sheet_name)
              THEN r1 @@ ("sheet_name" :> sheet_name[1]) ELSE r1
        r3 == IF TruthyName(column_name)
              THEN r2 @@ ("column_name" :> column_name[1]) ELSE r2
        r4 == IF TruthyText(full_row_data)
              THEN r3 @@ ("full_row_data" :> full_row_data[1]) ELSE r3
    IN  <<r4>> \o res

add_result(res, file_path, line_number, line_content, matched_term, sheet_name, column_name, full_row_data) ==
    LET base == [file_path |-> file_path,
                 line_number |-> line_number,
                 line_content |-> Strip(line_content)]
        r1 == IF TruthyText(matched_term)
              THEN base @@ ("matched_term" :> matched_term[1]) ELSE base
        r2 == IF TruthyName(sheet_name)
              THEN r1 @@ ("sheet_name" :> sheet_name[1]) ELSE r1
        r3 == IF TruthyName(column_name)
              THEN r2 @@ ("column_name" :> column_name[1]) ELSE r2
        r4 == IF TruthyText(full_row_data)
              THEN r3 @@ ("full_row_data" :> full_row_data[1]) ELSE r3
    IN  Append(res, r4)

----------------------------------------------------------------------------
(* search_files, the text branch *)

\* ScanLine with a break after the first term that occurs in the line
ScanLineFirstTermOnly(res, file_path, line_number, line, terms, t) ==
    LET hits == {u \in 1..Len(terms) : Contains(Lower(terms[u]), Lower(line))}
    IN  IF hits = {} THEN res
        ELSE add_result(res, file_path, line_number, line,
                        Some(terms[CHOOSE u \in hits : \A v \in hits : u <= v]),
                        None, None, None)

\* the inner loop over search_terms for one line
RECURSIVE ScanLine(_, _, _, _, _, _)
ScanLine(res, file_path, line_number, line, terms, t) ==
    IF t > Len(terms) THEN res
    ELSE ScanLine(
           IF Contains(Lower(terms[t]), Lower(line))
           THEN add_result(res, file_path, line_number, line, Some(terms[t]),
                           None, None, None)
           ELSE res,
           file_path, line_number, line, terms, t + 1)

\* enumerate(f, 1) over the lines that can be read
RECURSIVE ScanLines(_, _, _, _, _, _)
ScanLines(res, file_path, lines, terms, n, last) ==
    IF n > last THEN res
    ELSE ScanLines(ScanLine(res, file_path, n, lines[n], terms, 1),
                   file_path, lines, terms, n + 1, last)

ReadableLines(f) == IF f.fails THEN f.ok_lines ELSE Len(f.lines)

TextFilePath(f) == IF fs.is_file THEN f.name ELSE f.rel

----------------------------------------------------------------------------
(* search_excel_file.  A sheet is what pd.read_excel returns for it: the   *)
(* column labels and the rows, each cell a string, a number (with its      *)
(* str() rendering) or missing.                                            *)

NaNText == <<"n", "a", "n">>

\* df[col].dtype == 'object' or is_string_dtype(df[col]): a column read from
\* a sheet has object dtype when one of its cells holds text, and when the
\* sheet has no data row at all
IsTextColumn(sheet, c) ==
    \/ sheet.rows = <<>>
    \/ \E r \in 1..Len(sheet.rows) : sheet.rows[r][c].kind = "str"

\* df[col].astype(str) and str(row[col]): a missing cell is the float nan
CellStr(cell) == IF cell.kind = "null" THEN NaNText ELSE cell.s

\* str(row[column]) if pd.notna(row[column]) else ""
FullRowValue(cell) == IF cell.kind # "null" THEN cell.s ELSE <<>>

FullRowData(sheet, r) ==
    [c \in 1..Len(sheet.columns) |-> <<sheet.columns[c], FullRowValue(sheet.rows[r][c])>>]

\* the loops over df.columns, search_terms and the rows of the sheet, as one
\* loop over k = ((c - 1) * T + (t - 1)) * R + (r - 1)
ColOf(k, T, R) == (k \div (T * R)) + 1

TermOf(k, T, R) == ((k \div R) % T) + 1

RowOf(k, T, R) == (k % R) + 1

\* str.contains raises re.error when it compiles a malformed term: the scan
\* of the sheet ends at the first such (column, term)
SheetScanRaises(sheet, terms) ==
    /\ \E c \in 1..Len(sheet.columns) : IsTextColumn(sheet, c)
    /\ \E t \in 1..Len(terms) : ~RegexValid(terms[t])

FirstBadTerm(terms) ==
    CHOOSE t \in 1..Len(terms) :
        /\ ~RegexValid(terms[t])
        /\ \A u \in 1..(t - 1) : RegexValid(terms[u])

FirstTextColumn(sheet) ==
    CHOOSE c \in 1..Len(sheet.columns) :
        /\ IsTextColumn(sheet, c)
        /\ \A d \in 1..(c - 1) : ~IsTextColumn(sheet, d)

\* the number of (column, term, row) steps taken before the scan ends
SheetSteps(sheet, terms) ==
    LET T == Len(terms)
        R == Len(sheet.rows)
    IN  IF SheetScanRaises(sheet, terms)
        THEN ((FirstTextColumn(sheet) - 1) * T + (FirstBadTerm(terms) - 1)) * R
        ELSE Len(sheet.columns) * T * R

\* the results after the first k (column, term, row) steps on the sheet
RECURSIVE ScanSheet(_, _, _, _, _)
ScanSheet(res, file_name, sheet, terms, k) ==
    IF k = 0 THEN res
    ELSE LET T == Len(terms)
             R == Len(sheet.rows)
             c == ColOf(k - 1, T, R)
             t == TermOf(k - 1, T, R)
             r == RowOf(k - 1, T, R)
             cell == sheet.rows[r][c]
             before == ScanSheet(res, file_name, sheet, terms, k - 1)
         IN  IF IsTextColumn(sheet, c) /\ StrContains(terms[t], CellStr(cell))
             THEN add_result(before, file_name, (r - 1) + HeaderOffset,
                             CellStr(cell), Some(terms[t]),
                             Some(sheet.sheet_name), Some(sheet.columns[c]),
                             Some(FullRowData(sheet, r)))
             ELSE before

\* the body of the loop over xl.sheet_names: read_excel raises, or the scan
\* runs until it is through or str.contains raises
SearchSheet(res, file_name, sheet, terms) ==
    IF sheet.readable
    THEN ScanSheet(res, file_name, sheet, terms, SheetSteps(sheet, terms))
    ELSE res

SheetWarns(sheet, terms) == ~sheet.readable \/ SheetScanRaises(sheet, terms)

SheetWarning(file_name, sheet) ==
    [kind |-> "warning_sheet", sheet |-> sheet.sheet_name, file |-> file_name]

----------------------------------------------------------------------------
(* SearchResults.save_to_excel *)

ReplaceBlank(s) == [i \in 1..Len(s) |-> IF s[i] = " " THEN "_" ELSE s[i]]

SafeChars(s) == Filter(s, {c \in Range(s) : IsAlnum(c) \/ c \in {" ", "_"}})

SafeTerm(term) == ReplaceBlank(Strip(SafeChars(term)))

SafeTerms(terms) == Join(<<"_">>, [i \in 1..Len(terms) |-> SafeTerm(terms[i])])

\* f"search_results_{safe_terms[:50]}.xlsx", or the name that was given
OutputFile(output_file, terms) ==
    IF output_file = None
    THEN [stem |-> "search_results_", text |-> Take(SafeTerms(terms), MaxNameLen),
          ext |-> ".xlsx"]
    ELSE [stem |-> output_file[1], text |-> <<>>, ext |-> ""]

ResultFieldNames ==
    {"file_path", "line_number", "line_content", "sheet_name", "column_name"}

\* CleanColName that leaves the colliding names as they are
CleanColNameBare(col_name) ==
    IF col_name \notin ResultFieldNames
    THEN "source_" \o col_name
    ELSE col_name

CleanColName(col_name) ==
    IF col_name \notin ResultFieldNames
    THEN "source_" \o col_name
    ELSE "orig_" \o col_name

Keys(d) == [i \in 1..Len(d) |-> d[i][1]]

Indices(q) == [i \in 1..Len(q) |-> i]

\* the elements of q in the order of their first occurrence
FirstOccurrences(q) ==
    LET IsFirst(i) == \A j \in 1..(i - 1) : q[j] # q[i]
        firsts == SelectSeq(Indices(q), IsFirst)
    IN  [n \in 1..Len(firsts) |-> q[firsts[n]]]

\* the dict that the assignments d[key] = value leave, made in order: a key
\* keeps the place of its first assignment and the value of its last
DictOf(assignments) ==
    LET keys == FirstOccurrences(Keys(assignments))
        LastOf(key) == CHOOSE i \in 1..Len(assignments) :
                           /\ assignments[i][1] = key
                           /\ \A j \in (i + 1)..Len(assignments) :
                                  assignments[j][1] # key
    IN  [n \in 1..Len(keys) |-> <<keys[n], assignments[LastOf(keys[n])][2]>>]

CopiedField(result, key) ==
    IF key \in DOMAIN result THEN << <<key, result[key]>> >> ELSE <<>>

FullRowColumns(result) ==
    IF "full_row_data" \in DOMAIN result
    THEN [i \in 1..Len(result.full_row_data) |->
             <<CleanColName(result.full_row_data[i][1]),
               result.full_row_data[i][2]>>]
    ELSE <<>>

\* the row_data dict of one result
RowData(result) ==
    DictOf(<< <<"file_path", result.file_path>>,
              <<"line_number", result.line_number>>,
              <<"line_content", result.line_content>> >>
           \o CopiedField(result, "matched_term")
           \o CopiedField(result, "sheet_name")
           \o CopiedField(result, "column_name")
           \o FullRowColumns(result))

ExportData(res) == [i \in 1..Len(res) |-> RowData(res[i])]

RECURSIVE AllKeys(_, _)
AllKeys(export_data, i) ==
    IF i > Len(export_data) THEN <<>>
    ELSE Keys(export_data[i]) \o AllKeys(export_data, i + 1)

\* pd.DataFrame(list of dicts): the columns are the keys in the order in
\* which they first appear, record by record
DataFrame(export_data) ==
    [columns |-> FirstOccurrences(AllKeys(export_data, 1)), rows |-> export_data]

\* SummaryData that counts the records for the files
SummaryDataPerRecord(res, terms, location) ==
    [search_terms |-> Join(<<",", " ">>, terms),
     search_location |-> location,
     total_results |-> Len(res),
     unique_files |-> Len(res)]

SummaryData(res, terms, location) ==
    [search_terms |-> Join(<<",", " ">>, terms),
     search_location |-> location,
     total_results |-> Len(res),
     unique_files |-> Cardinality({res[i].file_path : i \in 1..Len(res)})]

\* save_to_excel without the test for an empty result list
save_to_excel_unguarded(res, terms, location, output_file) ==
    LET path == OutputFile(output_file, terms)
    IN  [out |-> <<[kind |-> "results_saved", file |-> path]>>,
         written |-> Some([file |-> path,
                           search_results |-> DataFrame(ExportData(res)),
                           summary |-> SummaryData(res, terms, location)]),
         returned |-> Some(path)]

\* the effect of one call: what is printed, written and returned
save_to_excel(res, terms, location, output_file) ==
    IF res = <<>>
    THEN [out |-> <<[kind |-> "no_results_to_save"]>>,
          written |-> None,
          returned |-> None]
    ELSE LET path == OutputFile(output_file, terms)
         IN  [out |-> <<[kind |-> "results_saved", file |-> path]>>,
              written |-> Some([file |-> path,
                                search_results |-> DataFrame(ExportData(res)),
                                summary |-> SummaryData(res, terms, location)]),
              returned |-> Some(path)]

----------------------------------------------------------------------------
(* The inputs: command lines and file systems *)

SeqsUpTo(S, lo, hi) == UNION {[1..n -> S] : n \in lo..hi}

NoRepeat(q) == \A i, j \in 1..Len(q) : i # j => q[i] # q[j]

TermPool == { <<>>, <<"A", "B">>, <<".">>, <<"(">> }

TermLists == SeqsUpTo(TermPool, 1, MaxTerms)

LinePool == { <<"\n">>, <<" ", "a", "B", "\n">> }

Str(s) == [kind |-> "str", s |-> s]

Num(s) == [kind |-> "num", s |-> s]

Null == [kind |-> "null", s |-> <<>>]

NotesSheet ==
    [sheet_name |-> "Sheet1", readable |-> TRUE,
     columns |-> <<"Notes", "line_number">>,
     rows |-> << <<Str(<<"a", "b", " ">>), Num(<<"7">>)>>,
                 <<Null, Num(<<"8">>)>> >>]

TermsSheet ==
    [sheet_name |-> "Data", readable |-> TRUE,
     columns |-> <<"matched_term", "Notes">>,
     rows |-> << <<Str(<<"b">>), Str(<<"A", "B">>)>> >>]

BrokenSheet ==
    [sheet_name |-> "Broken", readable |-> FALSE, columns |-> <<>>, rows |-> <<>>]

SheetPool == {NotesSheet, TermsSheet, BrokenSheet}

TextFile(rel, name, suffix, lines, fails, ok_lines) ==
    [rel |-> rel, name |-> name, suffix |-> suffix, lines |-> lines,
     fails |-> fails, ok_lines |-> ok_lines, opens |-> TRUE, sheets |-> <<>>]

ExcelFile(rel, name, suffix, opens, sheets) ==
    [rel |-> rel, name |-> name, suffix |-> suffix, lines |-> <<>>,
     fails |-> FALSE, ok_lines |-> 0, opens |-> opens, sheets |-> sheets]

\* --file notes.txt: every text file of up to MaxLines lines, read to the end
\* or up to an I/O error
SingleTextFiles ==
    { TextFile("notes.txt", "notes.txt", ".txt", l, e.fails, e.ok_lines) :
        <<l, e>> \in
            { <<l, e>> \in SeqsUpTo(LinePool, 0, MaxLines) \X
                           [fails : BOOLEAN, ok_lines : 0..MaxLines] :
                /\ e.ok_lines <= Len(l)
                /\ ~e.fails => e.ok_lines = 0 } }

\* --file book.xlsx: every workbook of up to MaxSheets sheets, and one that
\* cannot be opened
SingleWorkbooks ==
    { ExcelFile("book.xlsx", "book.xlsx", ".xlsx", TRUE, sh) :
        sh \in {q \in SeqsUpTo(SheetPool, 1, MaxSheets) : NoRepeat(q)} }
    \cup { ExcelFile("book.xlsx", "book.xlsx", ".xlsx", FALSE, <<>>) }

\* --path data: the files rglob finds under the directory
TreePool ==
    { TextFile("docs/a.txt", "a.txt", ".txt",
               << <<"\n">>, <<" ", "a", "B", "\n">> >>, FALSE, 0),
      TextFile("B.MD", "B.MD", ".MD",
               << <<"b", "A", "B">>, <<" ", "a", "B", "\n">> >>, TRUE, 1),
      ExcelFile("x/book.xlsx", "book.xlsx", ".xlsx", TRUE,
                <<BrokenSheet, NotesSheet>>),
      ExcelFile("y/book.xlsx", "book.xlsx", ".xlsx", TRUE, <<TermsSheet>>) }

Trees == {q \in SeqsUpTo(TreePool, 0, MaxFiles) : NoRepeat(q)}

Targets ==
    {[absolute |-> FALSE, path |-> p] : p \in {"data", "notes.txt", "book.xlsx"}}

ExtensionArgs == {None, Some({".txt", ".md"})}

\* --export, --output out.xlsx, or neither
ExportArgs ==
    {[export |-> TRUE, output |-> None],
     [export |-> FALSE, output |-> Some("out.xlsx")],
     [export |-> FALSE, output |-> None]}

CommandLines ==
    {[search_terms |-> t, target |-> p, extensions |-> e,
      export |-> x.export, output |-> x.output] :
        t \in TermLists, p \in Targets, e \in ExtensionArgs, x \in ExportArgs}

SingleFile(f) == [exists |-> TRUE, is_file |-> TRUE, files |-> <<f>>]

Directory(q) == [exists |-> TRUE, is_file |-> FALSE, files |-> q]

MissingPath == [exists |-> FALSE, is_file |-> FALSE, files |-> <<>>]

SingleFiles == {SingleFile(f) : f \in SingleTextFiles \cup SingleWorkbooks}

Directories == {Directory(q) : q \in Trees} \cup {MissingPath}

----------------------------------------------------------------------------
(* main() *)

Init ==
    /\ args \in CommandLines
    /\ \/ /\ fs \in SingleFiles
          /\ args.target.path = fs.files[1].rel
          /\ args.extensions = None
       \/ /\ fs \in Directories
          /\ args.target.path = "data"
    /\ results = <<>>
    /\ search_terms = <<>>
    /\ search_location = ""
    /\ files_to_search = <<>>
    /\ file_idx = 0
    /\ matching_files = 0
    /\ initial_results_count = 0
    /\ sheet_idx = 1
    /\ stdout = <<>>
    /\ save_calls = <<>>
    /\ returned = None
    /\ written = None
    /\ pc = "search_files"

DefaultExtensions ==
    {".txt", ".py", ".js", ".html", ".css", ".md", ".json", ".xml", ".csv",
     ".xlsx", ".xls"}

FileExtensions == IF args.extensions = None THEN DefaultExtensions ELSE args.extensions[1]

\* Path.suffix.lower()
SuffixLower(suffix) ==
    CASE suffix = ".XLS" -> ".xls"
      [] suffix = ".XLSX" -> ".xlsx"
      [] suffix = ".MD" -> ".md"
      [] OTHER -> suffix

\* os.path.abspath
Abspath(target) == IF target.absolute THEN target.path ELSE "/cwd/" \o target.path

Qualifies(f) == SuffixLower(f.suffix) \in FileExtensions

IsExcel(f) == SuffixLower(f.suffix) \in {".xlsx", ".xls"}

\* SearchFilesMissingPath without the return: the error is printed and the
\* function goes on to collect and scan
SearchFilesMissingPathNoReturn ==
    /\ pc = "search_files"
    /\ ~fs.exists
    /\ search_terms' = args.search_terms
    /\ search_location' = Abspath(args.target)
    /\ stdout' = stdout \o <<[kind |-> "error_path", path |-> args.target.path],
                              [kind |-> "searching",
                               terms |-> Len(args.search_terms)]>>
    /\ files_to_search' = <<>>
    /\ file_idx' = 1
    /\ pc' = "scan"
    /\ UNCHANGED <<inputs, saving, results, matching_files,
                   initial_results_count, sheet_idx>>

\* search_files up to the missing-path return
SearchFilesMissingPath ==
    /\ pc = "search_files"
    /\ ~fs.exists
    /\ search_terms' = args.search_terms
    /\ search_location' = Abspath(args.target)
    /\ stdout' = Append(stdout, [kind |-> "error_path", path |-> args.target.path])
    /\ pc' = "display"
    /\ UNCHANGED <<inputs, loop, saving, results>>

\* search_files up to the for loop
SearchFilesCollect ==
    /\ pc = "search_files"
    /\ fs.exists
    /\ search_terms' = args.search_terms
    /\ search_location' = Abspath(args.target)
    /\ stdout' = Append(stdout, [kind |-> "searching",
                                  terms |-> Len(args.search_terms)])
    /\ files_to_search' = SelectSeq(fs.files, Qualifies)
    /\ file_idx' = 1
    /\ pc' = "scan"
    /\ UNCHANGED <<inputs, saving, results, matching_files,
                   initial_results_count, sheet_idx>>

\* if len(results.results) > initial_results_count: matching_files += 1
CountMatching(initial, res) ==
    IF Len(res) > initial THEN matching_files + 1 ELSE matching_files

\* one iteration of the for loop, text branch
SearchTextFile ==
    /\ pc = "scan"
    /\ file_idx <= Len(files_to_search)
    /\ LET f == files_to_search[file_idx]
           res == ScanLines(results, TextFilePath(f), f.lines, search_terms, 1,
                            ReadableLines(f))
       IN  /\ ~IsExcel(f)
           /\ results' = res
           /\ stdout' = IF f.fails
                         THEN Append(stdout, [kind |-> "warning_file", file |-> f.rel])
                         ELSE stdout
           /\ matching_files' = CountMatching(Len(results), res)
    /\ file_idx' = file_idx + 1
    /\ UNCHANGED <<inputs, saving, search_terms, search_location,
                   files_to_search, initial_results_count, sheet_idx, pc>>

\* one iteration of the for loop, Excel branch, pd.ExcelFile raising
SearchExcelUnreadable ==
    /\ pc = "scan"
    /\ file_idx <= Len(files_to_search)
    /\ LET f == files_to_search[file_idx]
       IN  /\ IsExcel(f)
           /\ ~f.opens
           /\ stdout' = Append(stdout, [kind |-> "warning_excel", file |-> f.name])
    /\ file_idx' = file_idx + 1
    /\ UNCHANGED <<inputs, aggregator, saving, files_to_search,
                   matching_files, initial_results_count, sheet_idx, pc>>

\* SearchExcelSheet without the inner try: the sheet that fails is the last
\* one scanned in its workbook
SearchExcelSheetNoInnerTry ==
    /\ pc = "scan"
    /\ file_idx <= Len(files_to_search)
    /\ LET f == files_to_search[file_idx]
           sheet == f.sheets[sheet_idx]
           initial == IF sheet_idx = 1 THEN Len(results) ELSE initial_results_count
           res == SearchSheet(results, f.name, sheet, search_terms)
           last == sheet_idx = Len(f.sheets) \/ SheetWarns(sheet, search_terms)
       IN  /\ IsExcel(f)
           /\ f.opens
           /\ results' = res
           /\ stdout' = IF SheetWarns(sheet, search_terms)
                         THEN Append(stdout, SheetWarning(f.name, sheet))
                         ELSE stdout
           /\ IF last
              THEN /\ matching_files' = CountMatching(initial, res)
                   /\ initial_results_count' = 0
                   /\ sheet_idx' = 1
                   /\ file_idx' = file_idx + 1
              ELSE /\ initial_results_count' = initial
                   /\ sheet_idx' = sheet_idx + 1
                   /\ UNCHANGED <<matching_files, file_idx>>
    /\ UNCHANGED <<inputs, saving, search_terms, search_location,
                   files_to_search, pc>>

\* one sheet of a workbook that pd.ExcelFile opened; the first sheet's step
\* starts the iteration of the for loop and the last sheet's step ends it
SearchExcelSheet ==
    /\ pc = "scan"
    /\ file_idx <= Len(files_to_search)
    /\ LET f == files_to_search[file_idx]
           sheet == f.sheets[sheet_idx]
           initial == IF sheet_idx = 1 THEN Len(results) ELSE initial_results_count
           res == SearchSheet(results, f.name, sheet, search_terms)
       IN  /\ IsExcel(f)
           /\ f.opens
           /\ results' = res
           /\ stdout' = IF SheetWarns(sheet, search_terms)
                         THEN Append(stdout, SheetWarning(f.name, sheet))
                         ELSE stdout
           /\ IF sheet_idx = Len(f.sheets)
              THEN /\ matching_files' = CountMatching(initial, res)
                   /\ initial_results_count' = 0
                   /\ sheet_idx' = 1
                   /\ file_idx' = file_idx + 1
              ELSE /\ initial_results_count' = initial
                   /\ sheet_idx' = sheet_idx + 1
                   /\ UNCHANGED <<matching_files, file_idx>>
    /\ UNCHANGED <<inputs, saving, search_terms, search_location,
                   files_to_search, pc>>

\* the end of search_files
SearchFilesReturn ==
    /\ pc = "scan"
    /\ file_idx > Len(files_to_search)
    /\ stdout' = Append(stdout, [kind |-> "search_complete",
                                  matches |-> Len(results),
                                  matching_files |-> matching_files,
                                  total_files |-> Len(files_to_search)])
    /\ pc' = "display"
    /\ UNCHANGED <<inputs, aggregator, loop, saving>>

Min(a, b) == IF a < b THEN a ELSE b

display_results(res, max_display) ==
    IF res = <<>>
    THEN [kind |-> "no_results_found"]
    ELSE [kind |-> "results", shown |-> Min(Len(res), max_display),
          more |-> IF Len(res) > max_display THEN Len(res) - max_display ELSE 0,
          total |-> Len(res)]

DisplayResults ==
    /\ pc = "display"
    /\ stdout' = Append(stdout, display_results(results, DefaultMaxDisplay))
    /\ pc' = "export"
    /\ UNCHANGED <<inputs, aggregator, loop, saving>>

\* results.save_to_excel(output_file) called from main
CallSave(output_file) ==
    LET r == save_to_excel(results, search_terms, search_location, output_file)
    IN  /\ save_calls' = Append(save_calls, output_file)
        /\ stdout' = stdout \o r.out
        /\ written' = IF r.written = None THEN written ELSE r.written
        /\ returned' = r.returned

ExportOptionGiven == args.export \/ (args.output # None /\ args.output[1] # "")

\* if args.export or args.output
ExportByOption ==
    /\ pc = "export"
    /\ ExportOptionGiven
    /\ CallSave(args.output)
    /\ pc' = "done"
    /\ UNCHANGED <<inputs, aggregator, loop>>

\* elif results.results, and the answer is y or yes
PromptAccepted ==
    /\ pc = "export"
    /\ ~ExportOptionGiven
    /\ results # <<>>
    /\ \E name \in {"", "mine.xlsx"} :
           CallSave(IF name = "" THEN None ELSE Some(name))
    /\ pc' = "done"
    /\ UNCHANGED <<inputs, aggregator, loop>>

\* elif results.results, and any other answer
PromptDeclined ==
    /\ pc = "export"
    /\ ~ExportOptionGiven
    /\ results # <<>>
    /\ pc' = "done"
    /\ UNCHANGED <<inputs, aggregator, loop, saving, stdout>>

\* neither branch
NoExport ==
    /\ pc = "export"
    /\ ~ExportOptionGiven
    /\ results = <<>>
    /\ pc' = "done"
    /\ UNCHANGED <<inputs, aggregator, loop, saving, stdout>>

Next ==
    \/ SearchFilesMissingPath
    \/ SearchFilesCollect
    \/ SearchTextFile
    \/ SearchExcelUnreadable
    \/ SearchExcelSheet
    \/ SearchFilesReturn
    \/ DisplayResults
    \/ ExportByOption
    \/ PromptAccepted
    \/ PromptDeclined
    \/ NoExport

Spec == Init /\ [][Next]_vars

----------------------------------------------------------------------------
(* Vocabulary of the properties *)

\* the number of files the for loop of search_files has finished
FilesDone ==
    IF pc = "scan" THEN file_idx - 1
    ELSE IF pc \in {"display", "export", "done"} THEN Len(files_to_search)
    ELSE 0

TextFilesDone == {j \in 1..FilesDone : ~IsExcel(files_to_search[j])}

ExcelFilesDone == {j \in 1..FilesDone : IsExcel(files_to_search[j])}

\* the records of line n of text file f, as indices into results, in order
LineRecords(f, n) ==
    LET OfLine(i) == /\ results[i].file_path = TextFilePath(f)
                     /\ results[i].line_number = n
    IN  SelectSeq(Indices(results), OfLine)

OccursIn(term, line) == Contains(Lower(term), Lower(line))

\* the positions of search_terms whose term occurs in the line, in order
MatchingPositions(line) ==
    LET Occurs(t) == OccursIn(search_terms[t], line)
    IN  SelectSeq(Indices(search_terms), Occurs)

MatchingTerms(line) == {term \in Range(search_terms) : OccursIn(term, line)}

WasRead(f, n) == n <= ReadableLines(f)

HasFields(r, keys) == keys \subseteq DOMAIN r

LacksFields(r, keys) == keys \cap DOMAIN r = {}

----------------------------------------------------------------------------
(* C1 *)

\* C1 as stated: for every line of every scanned text file, the number of
\* records of the line equals the number of distinct search terms that occur
\* in it as a case-insensitive substring, and each of these records carries
\* the line number and a term that matched.
C1_DistinctTermsPerLine ==
    \A j \in TextFilesDone :
        LET f == files_to_search[j]
        IN  \A n \in 1..ReadableLines(f) :
                LET recs == LineRecords(f, n)
                IN  /\ Len(recs) = Cardinality(MatchingTerms(f.lines[n]))
                    /\ \A k \in 1..Len(recs) :
                           /\ "matched_term" \in DOMAIN results[recs[k]]
                           /\ results[recs[k]].matched_term
                                  \in MatchingTerms(f.lines[n])

\* C1 amended: for every line read from a scanned text file, the records of
\* the line are, in order, one per entry of the search-term list (repeated
\* entries counted each time) whose term occurs in the line as a
\* case-insensitive substring; a line with no such entry has no record; each
\* record carries the 1-based line number and the stripped line, and carries
\* the term as matched_term unless the term is the empty string, which
\* occurs in every line and leaves the record without matched_term.  A line
\* that was not read has no record.
C1_OneRecordPerMatchingEntry ==
    \A j \in TextFilesDone :
        LET f == files_to_search[j]
        IN  \A n \in 1..Len(f.lines) :
                LET recs == LineRecords(f, n)
                    pos == IF WasRead(f, n) THEN MatchingPositions(f.lines[n])
                           ELSE <<>>
                IN  /\ Len(recs) = Len(pos)
                    /\ \A k \in 1..Len(recs) :
                           LET r == results[recs[k]]
                               term == search_terms[pos[k]]
                           IN  /\ r.line_content = Strip(f.lines[n])
                               /\ LacksFields(r, {"sheet_name", "column_name",
                                                   "full_row_data"})
                               /\ IF term = <<>>
                                  THEN "matched_term" \notin DOMAIN r
                                  ELSE /\ "matched_term" \in DOMAIN r
                                       /\ r.matched_term = term

\* a text file has been scanned in which one line has two records and
\* another line, read as well, has none
C1_Witness ==
    \E j \in TextFilesDone :
        LET f == files_to_search[j]
        IN  /\ \E n \in 1..ReadableLines(f) : Len(LineRecords(f, n)) = 2
            /\ \E n \in 1..ReadableLines(f) : Len(LineRecords(f, n)) = 0

----------------------------------------------------------------------------
(* C2 *)

\* a record of the cell in row r, column c of the sheet for the term
EmittedFor(f, sheet, r, c, term) ==
    \E i \in 1..Len(results) :
        LET x == results[i]
        IN  /\ x.file_path = f.name
            /\ x.line_number = r + 1
            /\ HasFields(x, {"sheet_name", "column_name"})
            /\ x.sheet_name = sheet.sheet_name
            /\ x.column_name = sheet.columns[c]
            /\ IF term = <<>> THEN "matched_term" \notin DOMAIN x
               ELSE /\ "matched_term" \in DOMAIN x
                    /\ x.matched_term = term

\* C2 as stated: for every readable sheet of every scanned workbook, every
\* textual column, every search term and every row, a record is emitted for
\* (row, column, term) exactly when the cell's string value contains the term
\* as a plain case-insensitive substring, the test the text scanner applies.
C2_PlainSubstringInCells ==
    \A j \in ExcelFilesDone :
        LET f == files_to_search[j]
        IN  f.opens =>
            \A n \in 1..Len(f.sheets) :
                LET sheet == f.sheets[n]
                IN  sheet.readable =>
                    \A c \in 1..Len(sheet.columns) :
                        IsTextColumn(sheet, c) =>
                        \A r \in 1..Len(sheet.rows) :
                            \A t \in 1..Len(search_terms) :
                                EmittedFor(f, sheet, r, c, search_terms[t])
                                <=> OccursIn(search_terms[t],
                                             CellStr(sheet.rows[r][c]))

----------------------------------------------------------------------------
(* C3, C4, C5 *)

ToolFields ==
    {"file_path", "line_number", "line_content", "matched_term", "sheet_name",
     "column_name"}

ToolFieldOrder ==
    <<"file_path", "line_number", "line_content", "matched_term", "sheet_name",
      "column_name">>

Table == written[1].search_results

HasColumn(row, name, value) ==
    \E q \in 1..Len(row) : row[q][1] = name /\ row[q][2] = value

\* C3 as stated: every full_row_data key that equals one of the six field
\* names of the tool is exported as orig_<key>, every other key as
\* source_<key>.
C3_SixNamesGetOrig ==
    written # None =>
    \A i \in 1..Len(results) :
        "full_row_data" \in DOMAIN results[i] =>
        \A m \in 1..Len(results[i].full_row_data) :
            LET key == results[i].full_row_data[m][1]
                name == IF key \in ToolFields THEN "orig_" \o key
                        ELSE "source_" \o key
            IN  HasColumn(Table.rows[i], name, results[i].full_row_data[m][2])

\* C3 amended: every full_row_data key that equals one of file_path,
\* line_number, line_content, sheet_name, column_name is exported as
\* orig_<key>, and every other key, matched_term included, as source_<key>;
\* each key gets a column of its own and none of these columns has the name
\* of one of the tool's six result columns.
C3_FiveNamesGetOrig ==
    written # None =>
    \A i \in 1..Len(results) :
        LET fixed == Cardinality(DOMAIN results[i] \ {"full_row_data"})
            row == Table.rows[i]
        IN  IF "full_row_data" \in DOMAIN results[i]
            THEN /\ Len(row) = fixed + Len(results[i].full_row_data)
                 /\ \A q \in (fixed + 1)..Len(row) : row[q][1] \notin ToolFields
                 /\ \A m \in 1..Len(results[i].full_row_data) :
                        LET key == results[i].full_row_data[m][1]
                            name == IF key \in ToolFields \ {"matched_term"}
                                    THEN "orig_" \o key
                                    ELSE "source_" \o key
                        IN  HasColumn(row, name, results[i].full_row_data[m][2])
            ELSE Len(row) = fixed

\* a workbook was written from a sheet with a column named line_number and
\* from a sheet with a column named matched_term
C3_Witness ==
    /\ written # None
    /\ "orig_line_number" \in Range(Table.columns)
    /\ "source_matched_term" \in Range(Table.columns)

\* C4: a written workbook has one data row per record, in insertion order,
\* and a summary whose Total Results is the number of records and whose
\* Unique Files is the number of distinct file_path values among them.
C4_RowsAndSummary ==
    written # None =>
    /\ Len(results) >= 1
    /\ Len(Table.rows) = Len(results)
    /\ \A i \in 1..Len(results) :
           /\ HasColumn(Table.rows[i], "file_path", results[i].file_path)
           /\ HasColumn(Table.rows[i], "line_number", results[i].line_number)
           /\ HasColumn(Table.rows[i], "line_content", results[i].line_content)
    /\ written[1].summary.total_results = Len(results)
    /\ \E files \in SUBSET {results[i].file_path : i \in 1..Len(results)} :
           /\ \A i \in 1..Len(results) : results[i].file_path \in files
           /\ written[1].summary.unique_files = Cardinality(files)

\* a workbook was written from three or more records found in two files
C4_Witness ==
    /\ written # None
    /\ Len(Table.rows) >= 3
    /\ written[1].summary.unique_files = 2

\* C5 as stated: the columns of the written results table start with
\* file_path, line_number, line_content, then matched_term, sheet_name,
\* column_name (each if some record has it), and only then come the columns
\* derived from full_row_data, whatever the order of the records.
C5_FixedColumnOrder ==
    written # None =>
    LET InSomeRecord(key) == \E i \in 1..Len(results) : key \in DOMAIN results[i]
        fixed == SelectSeq(ToolFieldOrder, InSomeRecord)
    IN  /\ Len(Table.columns) >= Len(fixed)
        /\ SubSeq(Table.columns, 1, Len(fixed)) = fixed

----------------------------------------------------------------------------
(* C6 *)

Returned == fs.exists /\ pc \in {"display", "export", "done"}

\* the sheet cannot be read, or a malformed term stops the scan of its first
\* textual column
SheetFails(sheet) ==
    \/ ~sheet.readable
    \/ /\ \E c \in 1..Len(sheet.columns) : IsTextColumn(sheet, c)
       /\ \E t \in 1..Len(search_terms) : "(" \in Range(search_terms[t])

FailingSheets(f) == SelectSeq(f.sheets, SheetFails)

\* the warnings the scan of f owes
FileWarnings(f) ==
    IF ~IsExcel(f)
    THEN IF f.fails THEN <<[kind |-> "warning_file", file |-> f.rel]>> ELSE <<>>
    ELSE IF ~f.opens THEN <<[kind |-> "warning_excel", file |-> f.name]>>
    ELSE [n \in 1..Len(FailingSheets(f)) |->
             [kind |-> "warning_sheet", sheet |-> FailingSheets(f)[n].sheet_name,
              file |-> f.name]]

RECURSIVE WarningsOwed(_)
WarningsOwed(j) ==
    IF j > Len(files_to_search) THEN <<>>
    ELSE FileWarnings(files_to_search[j]) \o WarningsOwed(j + 1)

IsWarning(msg) == msg.kind \in {"warning_file", "warning_excel", "warning_sheet"}

\* C6: once search_files has returned, whatever files and sheets failed, it
\* returned normally with every file of the resolved list visited: the
\* warnings printed are those of the failing files and sheets, in the order
\* of the list; every line read from a text file has its records and every
\* sheet that did not fail has the records of its cells, also in files and
\* sheets that come after a failing one; and the closing message counts all
\* the files.
C6_FailuresAreSkipped ==
    Returned =>
    /\ SelectSeq(stdout, IsWarning) = WarningsOwed(1)
    /\ \E n \in 1..Len(stdout) :
           /\ stdout[n].kind = "search_complete"
           /\ stdout[n].total_files = Len(files_to_search)
           /\ stdout[n].matches = Len(results)
    /\ \A j \in TextFilesDone :
           LET f == files_to_search[j]
           IN  \A n \in 1..ReadableLines(f) :
                   Len(LineRecords(f, n)) = Len(MatchingPositions(f.lines[n]))
    /\ \A j \in ExcelFilesDone :
           LET f == files_to_search[j]
           IN  f.opens =>
               \A n \in 1..Len(f.sheets) :
                   LET sheet == f.sheets[n]
                   IN  ~SheetFails(sheet) =>
                       \A c \in 1..Len(sheet.columns) :
                           IsTextColumn(sheet, c) =>
                           \A r \in 1..Len(sheet.rows) :
                               \A t \in 1..Len(search_terms) :
                                   RegexSearch(search_terms[t],
                                               CellStr(sheet.rows[r][c]))
                                   => EmittedFor(f, sheet, r, c, search_terms[t])

\* search_files has returned from a workbook whose first sheet failed and
\* whose second sheet gave a record
C6_Witness ==
    /\ Returned
    /\ \E j \in ExcelFilesDone :
           LET f == files_to_search[j]
           IN  /\ f.opens
               /\ Len(f.sheets) >= 2
               /\ SheetFails(f.sheets[1])
               /\ \E i \in 1..Len(results) :
                      /\ "sheet_name" \in DOMAIN results[i]
                      /\ results[i].sheet_name = f.sheets[2].sheet_name

----------------------------------------------------------------------------
(* C7, C8 *)

Printed(kind) == \E n \in 1..Len(stdout) : stdout[n].kind = kind

C8_EmptyExportIsNoOp ==
    /\ (save_calls # <<>> /\ results = <<>>) =>
           /\ stdout[Len(stdout)].kind = "no_results_to_save"
           /\ written = None
           /\ returned = None
    /\ returned # None =>
           /\ results # <<>>
           /\ written # None
           /\ written[1].file = returned[1]
           /\ stdout[Len(stdout)] = [kind |-> "results_saved", file |-> returned[1]]

\* save_to_excel was called with an output file after a search of an
\* existing path that found nothing
C8_Witness ==
    /\ fs.exists
    /\ results = <<>>
    /\ save_calls = <<Some("out.xlsx")>>

----------------------------------------------------------------------------
(* C9, C10 *)

TabularFields == {"sheet_name", "column_name", "full_row_data"}

FromExcelFile(r) ==
    \E j \in 1..Len(files_to_search) :
        IsExcel(files_to_search[j]) /\ files_to_search[j].name = r.file_path

FromTextFile(r) ==
    \E j \in 1..Len(files_to_search) :
        /\ ~IsExcel(files_to_search[j])
        /\ TextFilePath(files_to_search[j]) = r.file_path

\* C9: every stored record has sheet_name, column_name and full_row_data
\* all three or none of them: all three when it comes from a tabular file,
\* none when it comes from a text file.
C9_TabularFieldsTogether ==
    \A i \in 1..Len(results) :
        \/ HasFields(results[i], TabularFields) /\ FromExcelFile(results[i])
        \/ LacksFields(results[i], TabularFields) /\ FromTextFile(results[i])

\* records of a text file and of a workbook are stored, one of them found
\* with the empty search term
C9_Witness ==
    /\ \E i \in 1..Len(results) : HasFields(results[i], TabularFields)
    /\ \E i \in 1..Len(results) : LacksFields(results[i], TabularFields)
    /\ \E i \in 1..Len(results) : "matched_term" \notin DOMAIN results[i]

IsPrefix(p, q) == Len(p) <= Len(q) /\ SubSeq(q, 1, Len(p)) = p

\* C10: every step leaves the stored records in place and only appends to
\* them; search_terms and search_location are assigned by the first step of
\* search_files, before any record is stored, and no later step, display and
\* export included, changes them.
C10_AppendOnly ==
    [][/\ IsPrefix(results, results')
       /\ pc # "search_files" =>
              /\ search_terms' = search_terms
              /\ search_location' = search_location
       /\ pc = "search_files" =>
              /\ results' = <<>>
              /\ search_terms' = args.search_terms
              /\ search_location' = Abspath(args.target)
       /\ pc \in {"display", "export"} => results' = results]_vars

\* the run has ended with records of two files stored and the search terms
\* as given on the command line
C10_Witness ==
    /\ pc = "done"
    /\ search_terms = args.search_terms
    /\ \E i, j \in 1..Len(results) : results[i].file_path # results[j].file_path

====
